---- MODULE Spec2Model ----
(***************************************************************************)
(* A model of the CLI coding agent of src/index.js: the readline prompt    *)
(* loop, the dispatch of a model reply by handleInput to the tool table, the  *)
(* five tool handlers over a small file system, and the request sent to    *)
(* the remote API.                                                         *)
(*                                                                         *)
(* Text is a sequence of one-character strings, so that trimming, case     *)
(* folding, fence stripping, JSON parsing and prefix tests are computed    *)
(* the way the JavaScript string operations compute them.  A constant text *)
(* nothing ever inspects (the system prompt, the fixed part of an error    *)
(* message) is held as a single opaque element.                            *)
(***************************************************************************)
EXTENDS Integers, Sequences, FiniteSets, TLC

(***************************************************************************)
(* Bounds of the model.                                                    *)
(***************************************************************************)
\* Number of input lines the terminal delivers while a question is pending.
MaxLines == 2
\* Number of input lines typed while no question is pending (readline drops them).
MaxDropped == 1
\* Length of the generated file contents and patterns of the handler calls.
MaxLen == 2

(***************************************************************************)
(* String operations of JavaScript, on character sequences.                *)
(***************************************************************************)
\* String.prototype.startsWith
StartsWith(s, p) ==
    Len(p) <= Len(s) /\ SubSeq(s, 1, Len(p)) = p

\* s has p at position i
MatchAt(s, p, i) ==
    i >= 1 /\ i + Len(p) - 1 <= Len(s) /\ SubSeq(s, i, i + Len(p) - 1) = p

\* String.prototype.indexOf, 1-based; 0 when p does not occur
IndexOf(s, p) ==
    IF \E i \in 1..(Len(s) + 1) : MatchAt(s, p, i)
    THEN CHOOSE i \in 1..(Len(s) + 1) :
            MatchAt(s, p, i) /\ \A j \in 1..(i - 1) : ~MatchAt(s, p, j)
    ELSE 0

\* s.replace(/p/, r) for a pattern p of literal characters and no flag:
\* the first occurrence of p is replaced, the rest of s is kept.
ReplaceFirst(s, p, r) ==
    LET i == IndexOf(s, p)
    IN  IF i = 0 THEN s
        ELSE SubSeq(s, 1, i - 1) \o r \o SubSeq(s, i + Len(p), Len(s))

WhiteSpace == {" ", "\n", "\t", "\r"}

\* String.prototype.trim
RECURSIVE TrimStart(_)
TrimStart(s) ==
    IF s # <<>> /\ Head(s) \in WhiteSpace THEN TrimStart(Tail(s)) ELSE s

RECURSIVE TrimEnd(_)
TrimEnd(s) ==
    IF s # <<>> /\ s[Len(s)] \in WhiteSpace
    THEN TrimEnd(SubSeq(s, 1, Len(s) - 1))
    ELSE s

Trim(s) == TrimEnd(TrimStart(s))

UpperCase ==
    <<"A", "B", "C", "D", "E", "F", "G", "H", "I", "J", "K", "L", "M",
      "N", "O", "P", "Q", "R", "S", "T", "U", "V", "W", "X", "Y", "Z">>
LowerCase ==
    <<"a", "b", "c", "d", "e", "f", "g", "h", "i", "j", "k", "l", "m",
      "n", "o", "p", "q", "r", "s", "t", "u", "v", "w", "x", "y", "z">>

ToLowerChar(c) ==
    IF \E i \in DOMAIN UpperCase : UpperCase[i] = c
    THEN LowerCase[CHOOSE i \in DOMAIN UpperCase : UpperCase[i] = c]
    ELSE c

\* String.prototype.toLowerCase
ToLowerCase(s) == [i \in DOMAIN s |-> ToLowerChar(s[i])]

\* Array.prototype.join
RECURSIVE Join(_, _)
Join(ss, sep) ==
    IF ss = <<>> THEN <<>>
    ELSE IF Len(ss) = 1 THEN ss[1]
    ELSE ss[1] \o sep \o Join(Tail(ss), sep)

(***************************************************************************)
(* JavaScript values, as far as JSON.parse produces them, and undefined.   *)
(***************************************************************************)
JUndefined == [type |-> "undefined"]
JNull == [type |-> "null"]
JString(s) == [type |-> "string", str |-> s]
JNumber(n) == [type |-> "number", num |-> n]
JBoolean(b) == [type |-> "boolean", bool |-> b]
JArray(vs) == [type |-> "array", vals |-> vs]
JObject(ks, vs) == [type |-> "object", keys |-> ks, vals |-> vs]

IsString(v) == v.type = "string"

\* ToBoolean: what a && b and if (a) test
Truthy(v) ==
    CASE v.type = "undefined" -> FALSE
      [] v.type = "null" -> FALSE
      [] v.type = "string" -> v.str # <<>>
      [] v.type = "number" -> v.num # 0
      [] v.type = "boolean" -> v.bool
      [] OTHER -> TRUE

\* v.key for a parsed value v that is neither null nor undefined: an own
\* property of an object (the last of duplicate keys), otherwise undefined.
\* No key the program reads (tool, args, path, oldStr, newStr, content,
\* command) is a property of a string, number, boolean or array.
GetProperty(v, key) ==
    IF v.type = "object" /\ \E i \in DOMAIN v.keys : v.keys[i] = key
    THEN v.vals[CHOOSE i \in DOMAIN v.keys :
                    v.keys[i] = key /\ \A j \in DOMAIN v.keys :
                                            v.keys[j] = key => j <= i]
    ELSE JUndefined

(***************************************************************************)
(* JSON.parse, by recursive descent over the characters.  The grammar is   *)
(* that of JSON without escape sequences in strings and without signs,     *)
(* fractions and exponents in numbers; no text of the model uses those.    *)
(***************************************************************************)
ParseFail == [ok |-> FALSE, val |-> JUndefined, pos |-> 0]
ParseOk(v, p) == [ok |-> TRUE, val |-> v, pos |-> p]

Digits == <<"0", "1", "2", "3", "4", "5", "6", "7", "8", "9">>
IsDigit(c) == \E i \in DOMAIN Digits : Digits[i] = c
DigitValue(c) == (CHOOSE i \in DOMAIN Digits : Digits[i] = c) - 1

RECURSIVE SkipWs(_, _)
SkipWs(s, i) ==
    IF i <= Len(s) /\ s[i] \in WhiteSpace THEN SkipWs(s, i + 1) ELSE i

\* s[i] is the opening quote
ParseString(s, i) ==
    IF \E j \in (i + 1)..Len(s) : s[j] = "\""
    THEN LET j == CHOOSE j \in (i + 1)..Len(s) :
                      s[j] = "\"" /\ \A k \in (i + 1)..(j - 1) : s[k] # "\""
             body == SubSeq(s, i + 1, j - 1)
         IN  IF \E k \in DOMAIN body : body[k] \in {"\\", "\n", "\t", "\r"}
             THEN ParseFail
             ELSE ParseOk(JString(body), j + 1)
    ELSE ParseFail

RECURSIVE ParseDigits(_, _, _)
ParseDigits(s, i, acc) ==
    IF i <= Len(s) /\ IsDigit(s[i])
    THEN ParseDigits(s, i + 1, 10 * acc + DigitValue(s[i]))
    ELSE ParseOk(JNumber(acc), i)

\* s[i] is a digit
ParseNumber(s, i) ==
    IF s[i] = "0" /\ i + 1 <= Len(s) /\ IsDigit(s[i + 1])
    THEN ParseFail
    ELSE ParseDigits(s, i, 0)

RECURSIVE ParseValue(_, _)
RECURSIVE ParseMembers(_, _, _, _)
RECURSIVE ParseElements(_, _, _)

\* the members of an object from position i (after white space), up to "}"
ParseMembers(s, i, ks, vs) ==
    LET k == IF i <= Len(s) /\ s[i] = "\"" THEN ParseString(s, i) ELSE ParseFail
        c == SkipWs(s, k.pos)
        v == ParseValue(s, SkipWs(s, c + 1))
        e == SkipWs(s, v.pos)
    IN  IF ~k.ok THEN ParseFail
        ELSE IF c > Len(s) \/ s[c] # ":" THEN ParseFail
        ELSE IF ~v.ok \/ e > Len(s) THEN ParseFail
        ELSE IF s[e] = "}"
             THEN ParseOk(JObject(Append(ks, k.val.str), Append(vs, v.val)), e + 1)
        ELSE IF s[e] = ","
             THEN ParseMembers(s, SkipWs(s, e + 1),
                               Append(ks, k.val.str), Append(vs, v.val))
        ELSE ParseFail

\* the elements of an array from position i (after white space), up to "]"
ParseElements(s, i, vs) ==
    LET v == ParseValue(s, i)
        e == SkipWs(s, v.pos)
    IN  IF ~v.ok \/ e > Len(s) THEN ParseFail
        ELSE IF s[e] = "]" THEN ParseOk(JArray(Append(vs, v.val)), e + 1)
        ELSE IF s[e] = "," THEN ParseElements(s, SkipWs(s, e + 1), Append(vs, v.val))
        ELSE ParseFail

ParseValue(s, i) ==
    IF i > Len(s) THEN ParseFail
    ELSE IF s[i] = "\"" THEN ParseString(s, i)
    ELSE IF s[i] = "{"
         THEN LET j == SkipWs(s, i + 1)
              IN  IF j <= Len(s) /\ s[j] = "}"
                  THEN ParseOk(JObject(<<>>, <<>>), j + 1)
                  ELSE ParseMembers(s, j, <<>>, <<>>)
    ELSE IF s[i] = "["
         THEN LET j == SkipWs(s, i + 1)
              IN  IF j <= Len(s) /\ s[j] = "]"
                  THEN ParseOk(JArray(<<>>), j + 1)
                  ELSE ParseElements(s, j, <<>>)
    ELSE IF IsDigit(s[i]) THEN ParseNumber(s, i)
    ELSE IF MatchAt(s, <<"t", "r", "u", "e">>, i) THEN ParseOk(JBoolean(TRUE), i + 4)
    ELSE IF MatchAt(s, <<"f", "a", "l", "s", "e">>, i) THEN ParseOk(JBoolean(FALSE), i + 5)
    ELSE IF MatchAt(s, <<"n", "u", "l", "l">>, i) THEN ParseOk(JNull, i + 4)
    ELSE ParseFail

\* JSON.parse(text): [ok |-> FALSE] stands for the SyntaxError it throws
JSONParse(s) ==
    LET r == ParseValue(s, SkipWs(s, 1))
    IN  IF r.ok /\ SkipWs(s, r.pos) = Len(s) + 1
        THEN [ok |-> TRUE, val |-> r.val]
        ELSE [ok |-> FALSE, val |-> JUndefined]

(***************************************************************************)
(* Texts of the program.                                                   *)
(***************************************************************************)
\* The grave accent (U+0060) and the apostrophe (U+0027) are not written inside
\* a string of this module; each is the one-element text named here.
Backtick == "U+0060"
Apostrophe == "U+0027"

FenceJson == <<Backtick, Backtick, Backtick, "j", "s", "o", "n">>
Fence == <<Backtick, Backtick, Backtick>>
ExitWord == <<"e", "x", "i", "t">>
ApiErrorPrefix ==
    <<"G", "e", "m", "i", "n", "i", " ", "A", "P", "I", " ", "E", "r", "r",
      "o", "r", ":">>
ErrorPrefix == <<"E", "r", "r", "o", "r", ":", " ">>

Key_tool == <<"t", "o", "o", "l">>
Key_args == <<"a", "r", "g", "s">>
Key_path == <<"p", "a", "t", "h">>
Key_oldStr == <<"o", "l", "d", "S", "t", "r">>
Key_newStr == <<"n", "e", "w", "S", "t", "r">>
Key_content == <<"c", "o", "n", "t", "e", "n", "t">>
Key_command == <<"c", "o", "m", "m", "a", "n", "d">>

Name_list_files == <<"l", "i", "s", "t", "_", "f", "i", "l", "e", "s">>
Name_read_file == <<"r", "e", "a", "d", "_", "f", "i", "l", "e">>
Name_edit_file == <<"e", "d", "i", "t", "_", "f", "i", "l", "e">>
Name_create_file == <<"c", "r", "e", "a", "t", "e", "_", "f", "i", "l", "e">>
Name_exec == <<"e", "x", "e", "c">>

\* the own keys of the object literal tools
ToolNames ==
    {Name_list_files, Name_read_file, Name_edit_file, Name_create_file, Name_exec}

\* The keys tools inherits from Object.prototype: tools[k] is a function (or,
\* for __proto__, Object.prototype itself), so it is truthy and has no func.
InheritedKeys ==
    { <<"c", "o", "n", "s", "t", "r", "u", "c", "t", "o", "r">>,
      <<"t", "o", "S", "t", "r", "i", "n", "g">>,
      <<"v", "a", "l", "u", "e", "O", "f">>,
      <<"h", "a", "s", "O", "w", "n", "P", "r", "o", "p", "e", "r", "t", "y">>,
      <<"i", "s", "P", "r", "o", "t", "o", "t", "y", "p", "e", "O", "f">>,
      <<"p", "r", "o", "p", "e", "r", "t", "y", "I", "s", "E", "n", "u", "m",
        "e", "r", "a", "b", "l", "e">>,
      <<"t", "o", "L", "o", "c", "a", "l", "e", "S", "t", "r", "i", "n", "g">>,
      <<"_", "_", "p", "r", "o", "t", "o", "_", "_">>,
      <<"_", "_", "d", "e", "f", "i", "n", "e", "G", "e", "t", "t", "e", "r", "_", "_">>,
      <<"_", "_", "d", "e", "f", "i", "n", "e", "S", "e", "t", "t", "e", "r", "_", "_">>,
      <<"_", "_", "l", "o", "o", "k", "u", "p", "G", "e", "t", "t", "e", "r", "_", "_">>,
      <<"_", "_", "l", "o", "o", "k", "u", "p", "S", "e", "t", "t", "e", "r", "_", "_">> }

\* the names of the error classes, as String(err) begins
ErrorName == <<"E", "r", "r", "o", "r">>
TypeErrorName == <<"T", "y", "p", "e", "E", "r", "r", "o", "r">>
SyntaxErrorName == <<"S", "y", "n", "t", "a", "x", "E", "r", "r", "o", "r">>

\* String(err) of an Error object: "<name>: <message>"
ErrorToString(name, message) == name \o <<":", " ">> \o message

\* the template literal at line 68..101, which no operation inspects
systemPrompt == <<"You are a CLI coding agent. [...] just reply normally as a chatbot.">>

RECURSIVE NumberToString(_)
NumberToString(n) ==
    IF n < 10 THEN <<Digits[n + 1]>>
    ELSE NumberToString(n \div 10) \o <<Digits[(n % 10) + 1]>>

\* ToJSString of a value, as a template literal ${v} and a property key take it
RECURSIVE ToJSString(_)
ToJSString(v) ==
    CASE v.type = "undefined" -> <<"u", "n", "d", "e", "f", "i", "n", "e", "d">>
      [] v.type = "null" -> <<"n", "u", "l", "l">>
      [] v.type = "string" -> v.str
      [] v.type = "number" -> NumberToString(v.num)
      [] v.type = "boolean" ->
            IF v.bool THEN <<"t", "r", "u", "e">> ELSE <<"f", "a", "l", "s", "e">>
      [] v.type = "array" ->
            Join([i \in DOMAIN v.vals |->
                    IF v.vals[i].type \in {"null", "undefined"} THEN <<>>
                    ELSE ToJSString(v.vals[i])], <<",">>)
      [] OTHER -> <<"[", "o", "b", "j", "e", "c", "t", " ", "O", "b", "j", "e", "c", "t", "]">>

(***************************************************************************)
(* The file system: files maps the path of every regular file to its     *)
(* content, dirs is the set of directories below the working directory.  *)
(* Paths are relative and in normal form (no "." or ".." component).       *)
(***************************************************************************)
Dot == <<".">>

RECURSIVE StripTrailingSlashes(_)
StripTrailingSlashes(p) ==
    IF Len(p) > 1 /\ p[Len(p)] = "/"
    THEN StripTrailingSlashes(SubSeq(p, 1, Len(p) - 1))
    ELSE p

\* path.dirname
Dirname(path) ==
    LET p == StripTrailingSlashes(path)
        slashes == {i \in DOMAIN p : p[i] = "/"}
    IN  IF slashes = {} THEN Dot
        ELSE LET last == CHOOSE i \in slashes : \A j \in slashes : j <= i
             IN  IF last = 1 THEN <<"/">>
                 ELSE StripTrailingSlashes(SubSeq(p, 1, last - 1))

IsDirectory(ds, p) == p = Dot \/ p \in ds

\* d and the directories above it, up to the working directory
DirChain(d) ==
    {d} \cup {SubSeq(d, 1, i - 1) : i \in {j \in DOMAIN d : j > 1 /\ d[j] = "/"}}

FsOk(v, fs, ds, calls) ==
    [threw |-> FALSE, value |-> v, files |-> fs, dirs |-> ds, io |-> calls]
FsThrow(e, fs, ds, calls) ==
    [threw |-> TRUE, value |-> e, files |-> fs, dirs |-> ds, io |-> calls]

\* fs.readdirSync("."): the entries of the working directory, in directory order
RECURSIVE SetToSeq(_)
SetToSeq(S) ==
    IF S = {} THEN <<>>
    ELSE LET x == CHOOSE y \in S : TRUE IN <<x>> \o SetToSeq(S \ {x})

readdirSync(fs, ds) ==
    SetToSeq({p \in (DOMAIN fs) \cup ds : \A i \in DOMAIN p : p[i] # "/"})

\* The text of a string is a sequence of UTF-16 code units and the content of
\* a file a sequence of UTF-8 encoded characters.  Writing a string encodes it:
\* a high surrogate followed by a low one is one supplementary character, any
\* other surrogate is unpaired and is written as U+FFFD.  Reading with the
\* "utf-8" encoding decodes: a supplementary character is a surrogate pair.
\* The model has one high surrogate, one low surrogate and their character.
HighSurrogate == "U+D83D"
LowSurrogate == "U+DE00"
SupplementaryChar == "U+1F600"
ReplacementChar == "U+FFFD"

RECURSIVE Utf8Encode(_)
Utf8Encode(s) ==
    IF s = <<>> THEN <<>>
    ELSE IF Len(s) >= 2 /\ s[1] = HighSurrogate /\ s[2] = LowSurrogate
    THEN <<SupplementaryChar>> \o Utf8Encode(SubSeq(s, 3, Len(s)))
    ELSE IF s[1] \in {HighSurrogate, LowSurrogate}
    THEN <<ReplacementChar>> \o Utf8Encode(Tail(s))
    ELSE <<s[1]>> \o Utf8Encode(Tail(s))

RECURSIVE Utf8Decode(_)
Utf8Decode(b) ==
    IF b = <<>> THEN <<>>
    ELSE IF b[1] = SupplementaryChar
    THEN <<HighSurrogate, LowSurrogate>> \o Utf8Decode(Tail(b))
    ELSE <<b[1]>> \o Utf8Decode(Tail(b))

\* fs.readFileSync(path, "utf-8"); a number is taken as a file descriptor, and no
\* descriptor but the standard streams (which no input names) is open
readFileSync(fs, ds, path) ==
    LET call == <<[op |-> "readFileSync", path |-> path]>>
    IN  IF path.type = "number"
        THEN FsThrow(ErrorToString(ErrorName, <<"EBADF: bad file descriptor, read">>),
                     fs, ds, call)
        ELSE IF path.type # "string"
        THEN FsThrow(ErrorToString(TypeErrorName,
                        <<"The \"path\" argument must be of type string or an instance of Buffer or URL.">>),
                     fs, ds, call)
        ELSE IF path.str \in DOMAIN fs THEN FsOk(Utf8Decode(fs[path.str]), fs, ds, call)
        ELSE IF IsDirectory(ds, path.str)
        THEN FsThrow(ErrorToString(ErrorName,
                        <<"EISDIR: illegal operation on a directory, read">>),
                     fs, ds, call)
        ELSE FsThrow(ErrorToString(ErrorName,
                        <<"ENOENT: no such file or directory, open ">> \o <<Apostrophe>> \o path.str \o <<Apostrophe>>),
                     fs, ds, call)

\* fs.writeFileSync(path, data): the data is validated before the file is opened
writeFileSync(fs, ds, path, data) ==
    LET call == <<[op |-> "writeFileSync", path |-> path]>>
    IN  IF data.type # "string"
        THEN FsThrow(ErrorToString(TypeErrorName,
                        <<"The \"data\" argument must be of type string or an instance of Buffer, TypedArray, or DataView.">>),
                     fs, ds, call)
        ELSE IF path.type = "number"
        THEN FsThrow(ErrorToString(ErrorName, <<"EBADF: bad file descriptor, write">>),
                     fs, ds, call)
        ELSE IF path.type # "string"
        THEN FsThrow(ErrorToString(TypeErrorName,
                        <<"The \"path\" argument must be of type string or an instance of Buffer or URL.">>),
                     fs, ds, call)
        ELSE IF IsDirectory(ds, path.str)
        THEN FsThrow(ErrorToString(ErrorName,
                        <<"EISDIR: illegal operation on a directory, open ">> \o <<Apostrophe>> \o path.str \o <<Apostrophe>>),
                     fs, ds, call)
        ELSE IF path.str = <<>> \/ ~IsDirectory(ds, Dirname(path.str))
        THEN FsThrow(ErrorToString(ErrorName,
                        <<"ENOENT: no such file or directory, open ">> \o <<Apostrophe>> \o path.str \o <<Apostrophe>>),
                     fs, ds, call)
        ELSE FsOk(JUndefined,
                  [q \in (DOMAIN fs) \cup {path.str} |->
                      IF q = path.str THEN Utf8Encode(data.str) ELSE fs[q]],
                  ds, call)

\* fs.mkdirSync(dir, { recursive: true }) for a string dir
mkdirSync(fs, ds, dir) ==
    LET call == <<[op |-> "mkdirSync", path |-> JString(dir)]>>
    IN  IF dir = Dot THEN FsOk(JUndefined, fs, ds, call)
        ELSE IF dir = <<>>
        THEN FsThrow(ErrorToString(ErrorName,
                        <<"ENOENT: no such file or directory, mkdir ", Apostrophe, Apostrophe>>), fs, ds, call)
        ELSE IF \E q \in DirChain(dir) : q \in DOMAIN fs
        THEN FsThrow(ErrorToString(ErrorName,
                        <<"EEXIST: file already exists, mkdir ">> \o <<Apostrophe>> \o dir \o <<Apostrophe>>),
                     fs, ds, call)
        ELSE FsOk(JUndefined, fs, ds \cup DirChain(dir), call)

(***************************************************************************)
(* new RegExp(oldStr, "g") and String.prototype.replace with it.  The      *)
(* patterns of the model are sequences of literal characters, of "." and  *)
(* of the characters that open a group or a class; no pattern of the model *)
(* holds the character that closes one, so a pattern with an opening       *)
(* character is unterminated.                                              *)
(***************************************************************************)
RegExpSpecial == {"(", "["}

\* new RegExp(pattern) throws SyntaxError
RegExpThrows(pattern) == \E i \in DOMAIN pattern : pattern[i] \in RegExpSpecial

\* the pattern matches s at position i
RegExpMatchAt(s, pattern, i) ==
    /\ i + Len(pattern) - 1 <= Len(s)
    /\ \A k \in DOMAIN pattern :
          IF pattern[k] = "." THEN s[i + k - 1] \notin {"\n", "\r"}
          ELSE s[i + k - 1] = pattern[k]

\* the replacement text of one match of length n at position i of s: a dollar
\* followed by a dollar, an ampersand, a grave accent or an apostrophe is
\* substituted, anything else is literal (the patterns have no groups)
RECURSIVE GetSubstitution(_, _, _, _)
GetSubstitution(r, s, i, n) ==
    IF r = <<>> THEN <<>>
    ELSE IF Len(r) >= 2 /\ r[1] = "$" /\ r[2] \in {"$", "&", Backtick, Apostrophe}
         THEN (CASE r[2] = "$" -> <<"$">>
                 [] r[2] = "&" -> SubSeq(s, i, i + n - 1)
                 [] r[2] = Backtick -> SubSeq(s, 1, i - 1)
                 [] r[2] = Apostrophe -> SubSeq(s, i + n, Len(s)))
              \o GetSubstitution(SubSeq(r, 3, Len(r)), s, i, n)
         ELSE <<r[1]>> \o GetSubstitution(Tail(r), s, i, n)

\* s.replace(new RegExp(pattern, "g"), r), scanning from position i: matches are
\* taken left to right without overlap; an empty match advances by one character
RECURSIVE ReplaceAllFrom(_, _, _, _)
ReplaceAllFrom(s, pattern, r, i) ==
    IF i > Len(s)
    THEN IF pattern = <<>> THEN GetSubstitution(r, s, i, 0) ELSE <<>>
    ELSE IF RegExpMatchAt(s, pattern, i)
         THEN IF pattern = <<>>
              THEN GetSubstitution(r, s, i, 0) \o <<s[i]>>
                      \o ReplaceAllFrom(s, pattern, r, i + 1)
              ELSE GetSubstitution(r, s, i, Len(pattern))
                      \o ReplaceAllFrom(s, pattern, r, i + Len(pattern))
         ELSE <<s[i]>> \o ReplaceAllFrom(s, pattern, r, i + 1)

ReplaceAll(s, pattern, r) == ReplaceAllFrom(s, pattern, r, 1)

(***************************************************************************)
(* The tool handlers (tools.<name>.func).  A handler takes the file system *)
(* and the args value and yields [threw, value, files, dirs, io]: whether  *)
(* it threw, the text it returned (or String(err) of what it threw), the   *)
(* file system it leaves and the fs calls it made.                         *)
(***************************************************************************)
Returned(text, fs, ds, calls) ==
    [threw |-> FALSE, value |-> text, files |-> fs, dirs |-> ds, io |-> calls]
Threw(text, fs, ds, calls) ==
    [threw |-> TRUE, value |-> text, files |-> fs, dirs |-> ds, io |-> calls]

list_files(fs, ds, args) ==
    Returned(Join(readdirSync(fs, ds), <<"\n">>), fs, ds,
             <<[op |-> "readdirSync", path |-> JString(Dot)]>>)

read_file(fs, ds, args) ==
    readFileSync(fs, ds, GetProperty(args, Key_path))

\* lines 40..41 of edit_file: r is what the read returned, w what the write did
edit_file_write(fs, ds, path, r, w) ==
    IF w.threw THEN Threw(w.value, fs, ds, r.io \o w.io)
    ELSE Returned(<<"Successfully edited ", Apostrophe>> \o ToJSString(path)
                     \o <<Apostrophe>>,
                  w.files, w.dirs, r.io \o w.io)

\* line 39 of edit_file: r is what readFileSync returned
edit_file_replace(fs, ds, path, oldStr, newStr, r) ==
    IF r.threw THEN r
    ELSE IF RegExpThrows(oldStr.str)
    THEN Threw(ErrorToString(SyntaxErrorName,
                  <<"Invalid regular expression: /">> \o oldStr.str \o <<"/">>),
               fs, ds, r.io)
    ELSE edit_file_write(fs, ds, path, r,
             writeFileSync(fs, ds, path,
                           JString(ReplaceAll(r.value, oldStr.str, newStr.str))))

\* lines 32..38 of edit_file
edit_file_checked(fs, ds, path, oldStr, newStr) ==
    IF ~Truthy(path) \/ ~IsString(oldStr) \/ ~IsString(newStr)
    THEN Threw(ErrorToString(ErrorName,
                  <<"Missing or invalid arguments. Got: path=">> \o ToJSString(path)
                  \o <<", oldStr=">> \o ToJSString(oldStr)
                  \o <<", newStr=">> \o ToJSString(newStr)),
               fs, ds, <<>>)
    ELSE edit_file_replace(fs, ds, path, oldStr, newStr, readFileSync(fs, ds, path))

edit_file(fs, ds, args) ==
    edit_file_checked(fs, ds, GetProperty(args, Key_path),
                      GetProperty(args, Key_oldStr), GetProperty(args, Key_newStr))

\* lines 49..50 of create_file: m is what mkdirSync did, w what the write did
create_file_written(path, m, w) ==
    IF w.threw THEN Threw(w.value, m.files, m.dirs, m.io \o w.io)
    ELSE Returned(<<"Created ">> \o path.str, w.files, w.dirs, m.io \o w.io)

\* line 49 of create_file: m is what mkdirSync did
create_file_write(fs, ds, path, content, m) ==
    IF m.threw THEN Threw(m.value, fs, ds, m.io)
    ELSE create_file_written(path, m, writeFileSync(m.files, m.dirs, path, content))

\* a create_file that writes without making the directories
create_file_checked_no_mkdir(fs, ds, path, content) ==
    IF ~IsString(path)
    THEN Threw(ErrorToString(TypeErrorName,
                  <<"The \"path\" argument must be of type string.">>),
               fs, ds, <<>>)
    ELSE create_file_write(fs, ds, path, content, FsOk(JUndefined, fs, ds, <<>>))

\* line 48 of create_file: path.dirname throws on a path that is no string
create_file_checked(fs, ds, path, content) ==
    IF ~IsString(path)
    THEN Threw(ErrorToString(TypeErrorName,
                  <<"The \"path\" argument must be of type string.">>),
               fs, ds, <<>>)
    ELSE create_file_write(fs, ds, path, content,
                           mkdirSync(fs, ds, Dirname(path.str)))

create_file(fs, ds, args) ==
    create_file_checked(fs, ds, GetProperty(args, Key_path),
                        GetProperty(args, Key_content))

\* What the shell does with a command: the commands of the model touch no file.
Cmd_echo_hi == <<"e", "c", "h", "o", " ", "h", "i">>
Cmd_false == <<"f", "a", "l", "s", "e">>

ShellRun(command) ==
    IF command = Cmd_echo_hi
    THEN [failed |-> FALSE, stdout |-> <<"h", "i", "\n">>, stderr |-> <<>>]
    ELSE IF command = Cmd_false
    THEN [failed |-> TRUE, stdout |-> <<>>, stderr |-> <<>>]
    ELSE [failed |-> TRUE, stdout |-> <<>>,
          stderr |-> <<"/bin/sh: 1: ">> \o command \o <<": not found", "\n">>]

\* the callback of child_process.exec: reject(stderr || err.message) or resolve(stdout)
exec_settle(fs, ds, command, out) ==
    IF out.failed
    THEN Threw(IF out.stderr # <<>> THEN out.stderr
               ELSE <<"Command failed: ">> \o command \o <<"\n">> \o out.stderr,
               fs, ds, <<>>)
    ELSE Returned(out.stdout, fs, ds, <<>>)

exec_callback(fs, ds, command) == exec_settle(fs, ds, command, ShellRun(command))

\* tools.exec.func with a command that is no string: child_process.exec throws
\* inside the promise executor, so the promise is rejected with the TypeError
exec_invalid(fs, ds, args) ==
    Threw(ErrorToString(TypeErrorName,
             <<"The \"command\" argument must be of type string.">>),
          fs, ds, <<>>)

\* a dispatch table whose edit_file entry holds the handler of read_file
func_wrong_entry(key, fs, ds, args) ==
    CASE key = Name_list_files -> list_files(fs, ds, args)
      [] key = Name_read_file -> read_file(fs, ds, args)
      [] key = Name_edit_file -> read_file(fs, ds, args)
      [] key = Name_create_file -> create_file(fs, ds, args)
      [] key = Name_exec -> exec_invalid(fs, ds, args)

\* tools[key].func(args) for a synchronous handler
func(key, fs, ds, args) ==
    CASE key = Name_list_files -> list_files(fs, ds, args)
      [] key = Name_read_file -> read_file(fs, ds, args)
      [] key = Name_edit_file -> edit_file(fs, ds, args)
      [] key = Name_create_file -> create_file(fs, ds, args)
      [] key = Name_exec -> exec_invalid(fs, ds, args)

\* tools[tool]: an own entry, a truthy value inherited from Object.prototype,
\* or undefined
ToolsLookup(tool) ==
    LET key == ToJSString(tool)
    IN  IF key \in ToolNames THEN "own"
        ELSE IF key \in InheritedKeys THEN "inherited"
        ELSE "undefined"

(***************************************************************************)
(* Turns and the dispatch of a reply (handleInput, lines 138..168).        *)
(***************************************************************************)
SystemTurn == [role |-> "assistant", content |-> systemPrompt]
UserTurn(input) == [role |-> "user", content |-> input]
ModelTurn(reply) == [role |-> "model", content |-> reply]
ToolTurn(tool, text) == [role |-> "tool", name |-> tool, content |-> text]

\* a catch block that records the error without the prefix
ToolContent_no_prefix(r) == r.value

\* the content of the tool Turn for a handler outcome (lines 148 and 154)
ToolContent(r) == IF r.threw THEN ErrorPrefix \o r.value ELSE r.value

\* line 139
StripFences(reply) ==
    ReplaceFirst(ReplaceFirst(reply, FenceJson, <<>>), Fence, <<>>)

\* a request that leaves the system prompt out
RequestContents_no_system(conv) ==
    [i \in 1..(Len(conv) - 1) |->
        [role |-> conv[i + 1].role, parts |-> <<[text |-> conv[i + 1].content]>>]]

\* body.contents of chatWithGemini
RequestContents(conv) ==
    [i \in DOMAIN conv |->
        [role |-> conv[i].role, parts |-> <<[text |-> conv[i].content]>>]]

Outcome(branch, conv, fs, ds, calls, results, fsCalls) ==
    [branch |-> branch, conversation |-> conv, files |-> fs, dirs |-> ds,
     invoked |-> calls, results |-> results, io |-> fsCalls]

\* lines 146..155: r is what the handler of the own entry tools[tool] did
ToolRan(tool, args, conv, r) ==
    Outcome("tool", Append(conv, ToolTurn(tool, ToolContent(r))), r.files, r.dirs,
            <<[tool |-> tool, args |-> args]>>,
            <<[threw |-> r.threw, value |-> r.value]>>, r.io)

\* lines 146..155 when tools[tool] is inherited: the call of its func throws
NotAFunction(tool, conv, fs, ds) ==
    Outcome("notFunction",
            Append(conv, ToolTurn(tool,
                ErrorPrefix \o ErrorToString(TypeErrorName,
                                  <<"tools[tool].func is not a function">>))),
            fs, ds, <<>>, <<>>, <<>>)

\* a dispatch that stores the reply of the model before it runs the tool
Dispatch_stores_reply(tool, args, reply, conv, fs, ds) ==
    IF Truthy(tool) /\ Truthy(args)
    THEN IF ToolsLookup(tool) = "own"
         THEN IF ToJSString(tool) = Name_exec /\ IsString(GetProperty(args, Key_command))
              THEN Outcome("exec", Append(conv, ModelTurn(reply)), fs, ds,
                           <<[tool |-> tool, args |-> args]>>, <<>>, <<>>)
              ELSE ToolRan(tool, args, Append(conv, ModelTurn(reply)),
                           func(ToJSString(tool), fs, ds, args))
         ELSE IF ToolsLookup(tool) = "inherited"
         THEN NotAFunction(tool, conv, fs, ds)
         ELSE Outcome("unknownTool", conv, fs, ds, <<>>, <<>>, <<>>)
    ELSE IF StartsWith(reply, ApiErrorPrefix)
    THEN Outcome("apiErrorText", conv, fs, ds, <<>>, <<>>, <<>>)
    ELSE Outcome("message", Append(conv, ModelTurn(reply)), fs, ds, <<>>, <<>>, <<>>)

\* lines 141..165 on the parsed payload, with its tool and args properties.
\* Branch "exec" is the await of a started shell command: its Turn is pushed
\* when the command completes.
Dispatch(tool, args, reply, conv, fs, ds) ==
    IF Truthy(tool) /\ Truthy(args)
    THEN IF ToolsLookup(tool) = "own"
         THEN IF ToJSString(tool) = Name_exec /\ IsString(GetProperty(args, Key_command))
              THEN Outcome("exec", conv, fs, ds,
                           <<[tool |-> tool, args |-> args]>>, <<>>, <<>>)
              ELSE ToolRan(tool, args, conv, func(ToJSString(tool), fs, ds, args))
         ELSE IF ToolsLookup(tool) = "inherited"
         THEN NotAFunction(tool, conv, fs, ds)
         ELSE Outcome("unknownTool", conv, fs, ds, <<>>, <<>>, <<>>)
    ELSE IF StartsWith(reply, ApiErrorPrefix)
    THEN Outcome("apiErrorText", conv, fs, ds, <<>>, <<>>, <<>>)
    ELSE Outcome("message", Append(conv, ModelTurn(reply)), fs, ds, <<>>, <<>>, <<>>)

\* lines 140..141 and 166..168: JSON.parse throws, or reading a property of
\* null throws, and the outer catch logs it
Parsed(parsed, reply, conv, fs, ds) ==
    IF ~parsed.ok \/ parsed.val.type = "null"
    THEN Outcome("parseError", conv, fs, ds, <<>>, <<>>, <<>>)
    ELSE Dispatch(GetProperty(parsed.val, Key_tool), GetProperty(parsed.val, Key_args),
                  reply, conv, fs, ds)

\* The try block of handleInput on a reply (lines 138..168): the branch taken,
\* the conversation and file system it leaves, and the handlers it invoked.
HandleReply(reply, conv, fs, ds) ==
    Parsed(JSONParse(StripFences(reply)), reply, conv, fs, ds)

(***************************************************************************)
(* The inputs of the model: the lines the user types, the files of the     *)
(* working directory at startup, and the texts the remote API returns.     *)
(***************************************************************************)
Quoted(s) == <<"\"">> \o s \o <<"\"">>
Member(k, text) == Quoted(k) \o <<":">> \o text
ObjectText(members) == <<"{">> \o Join(members, <<",">>) \o <<"}">>
ToolCall(name, members) ==
    ObjectText(<<Member(Key_tool, Quoted(name)), Member(Key_args, ObjectText(members))>>)

Path_a == <<"a">>
Path_z == <<"z">>
Path_d_b == <<"d", "/", "b">>

InitialFiles == (Path_a :> <<"a", "-", "a">>)
InitialDirs == {}

Line_hi == <<"h", "i">>
Line_exits == <<"e", "x", "i", "t", "s">>
Line_Exit == <<" ", "E", "x", "i", "T", " ">>
Lines == {Line_hi, Line_exits, Line_Exit}

Reply_plain == <<"H", "e", "l", "l", "o", "!">>
Reply_string == Quoted(<<"h", "i">>)
Reply_null == <<"n", "u", "l", "l">>
Reply_number == <<"4", "2">>
Reply_list == ToolCall(Name_list_files, <<>>)
Reply_list_fenced ==
    <<"\n">> \o FenceJson \o <<"\n">> \o Reply_list \o <<"\n">> \o Fence \o <<"\n">>
Reply_read == ToolCall(Name_read_file, <<Member(Key_path, Quoted(Path_a))>>)
Reply_read_missing == ToolCall(Name_read_file, <<Member(Key_path, Quoted(Path_z))>>)
Reply_edit ==
    ToolCall(Name_edit_file, <<Member(Key_path, Quoted(Path_a)),
                               Member(Key_oldStr, Quoted(<<"a">>)),
                               Member(Key_newStr, Quoted(<<"b">>))>>)
Reply_edit_no_newStr ==
    ToolCall(Name_edit_file, <<Member(Key_path, Quoted(Path_a)),
                               Member(Key_oldStr, Quoted(<<"a">>))>>)
Reply_create ==
    ToolCall(Name_create_file, <<Member(Key_path, Quoted(Path_d_b)),
                                 Member(Key_content, Quoted(<<"x">>))>>)
Reply_create_no_content ==
    ToolCall(Name_create_file, <<Member(Key_path, Quoted(Path_d_b))>>)
Reply_create_fence ==
    ToolCall(Name_create_file, <<Member(Key_path, Quoted(Path_z)),
                                 Member(Key_content, Quoted(Fence))>>)
Reply_exec == ToolCall(Name_exec, <<Member(Key_command, Quoted(Cmd_echo_hi))>>)
Reply_exec_fails == ToolCall(Name_exec, <<Member(Key_command, Quoted(Cmd_false))>>)
Reply_exec_no_command == ToolCall(Name_exec, <<>>)
Reply_unknown == ToolCall(<<"n", "o", "p", "e">>, <<>>)
Reply_inherited ==
    ToolCall(<<"c", "o", "n", "s", "t", "r", "u", "c", "t", "o", "r">>, <<>>)
Reply_no_args == ObjectText(<<Member(Key_tool, Quoted(Name_list_files))>>)
Reply_empty_tool ==
    ObjectText(<<Member(Key_tool, Quoted(<<>>)), Member(Key_args, ObjectText(<<>>))>>)

\* res.data.candidates[0].content.parts[0].text of a successful response
Replies ==
    { Reply_plain, Reply_string, Reply_null, Reply_number, Reply_list,
      Reply_list_fenced, Reply_read, Reply_read_missing, Reply_edit,
      Reply_edit_no_newStr, Reply_create, Reply_create_no_content,
      Reply_create_fence, Reply_exec,
      Reply_exec_fails, Reply_exec_no_command, Reply_unknown, Reply_inherited,
      Reply_no_args, Reply_empty_tool }

\* why a model call fails: no response, a non-success status, or a response
\* without candidates[0].content.parts[0].text
Failures == {"transport", "status", "shape"}

\* What an unhandled promise rejection does: Node 15 and later end the process
\* with status 1; earlier versions warn and leave it running.
UnhandledRejections == {"throw", "warn"}

(***************************************************************************)
(* The state.                                                              *)
(***************************************************************************)
VARIABLES
    GEMINI_API_KEY,   \* whether process.env holds the key
    pc,               \* where the program is
    process,          \* "running", or the exit status "exit0" / "exit1"
    conversation,     \* the Turns
    files, dirs,      \* the file system
    questionPending,  \* readline holds a question callback (the prompt is shown)
    request,          \* the contents of the last request sent to the API
    modelCalls,       \* the number of requests sent
    inFlight,         \* invocations of handleInput that have not settled
    pending,          \* the exec handler awaited: its tool, args and command
    lines,            \* the number of lines given to the question callback
    dropped,          \* the number of lines typed while no question was pending
    hist              \* what the last line given to the callback has led to

vars ==
    <<GEMINI_API_KEY, pc, process, conversation, files, dirs, questionPending,
      request, modelCalls, inFlight, pending, lines, dropped, hist>>

NoPending == [tool |-> JUndefined, args |-> JUndefined, command |-> <<>>]

NewHist(input, conv, fs, ds) ==
    [input |-> input, before |-> conv, filesBefore |-> fs, dirsBefore |-> ds,
     calls |-> 0, failed |-> FALSE, cause |-> "", replied |-> FALSE,
     reply |-> <<>>, branch |-> "", invoked |-> <<>>, results |-> <<>>,
     io |-> <<>>, settled |-> FALSE]

Init ==
    /\ GEMINI_API_KEY \in BOOLEAN
    /\ pc = "Startup"
    /\ process = "running"
    /\ conversation = <<>>
    /\ files = InitialFiles
    /\ dirs = InitialDirs
    /\ questionPending = FALSE
    /\ request = <<>>
    /\ modelCalls = 0
    /\ inFlight = 0
    /\ pending = NoPending
    /\ lines = 0
    /\ dropped = 0
    /\ hist = NewHist(<<>>, <<>>, InitialFiles, InitialDirs)

\* Lines 10..14, 103 and 194..195: without the key the process exits with
\* status 1; with it the conversation is created and promptLoop asks.
Startup ==
    /\ pc = "Startup"
    /\ IF GEMINI_API_KEY
       THEN /\ pc' = "AwaitingInput"
            /\ conversation' = <<SystemTurn>>
            /\ questionPending' = TRUE
            /\ process' = process
       ELSE /\ pc' = "Exited"
            /\ process' = "exit1"
            /\ UNCHANGED <<conversation, questionPending>>
    /\ UNCHANGED <<GEMINI_API_KEY, files, dirs, request, modelCalls, inFlight,
                   pending, lines, dropped, hist>>

\* a callback that asks again before handleInput has settled
QuestionAfterLine_asks_at_once == TRUE

\* whether a question is pending once the callback has taken a line: readline
\* clears the callback before calling it, and promptLoop asks again only after
\* the await of handleInput
QuestionAfterLine == FALSE

\* a failure path that records the error text as a model Turn
ConversationAfterFailure_recorded(conv) == Append(conv, ModelTurn(ApiErrorPrefix))

\* a failure path that takes the user Turn back
ConversationAfterFailure_popped(conv) == SubSeq(conv, 1, Len(conv) - 1)

\* the conversation once chatWithGemini has thrown (line 135 rethrows: nothing
\* after it in handleInput runs)
ConversationAfterFailure(conv) == conv

\* an exit test that neither trims nor folds case
IsExit_exact(input) == input = ExitWord

\* line 185: the test of the callback for the exit line
IsExit(input) == ToLowerCase(Trim(input)) = ExitWord

\* The callback of rl.question (lines 184..189) on a line: "exit" closes the
\* interface; any other line starts handleInput, which pushes the user Turn
\* and sends the request (lines 133, 109..119).
promptLoop(input) ==
    /\ questionPending
    /\ lines < MaxLines
    /\ lines' = lines + 1
    /\ questionPending' = QuestionAfterLine
    /\ IF IsExit(input)
       THEN /\ pc' = "Closed"
            /\ process' = "exit0"
            /\ hist' = [NewHist(input, conversation, files, dirs) EXCEPT !.settled = TRUE]
            /\ UNCHANGED <<conversation, request, modelCalls, inFlight>>
       ELSE /\ pc' = "ModelCallInFlight"
            /\ conversation' = Append(conversation, UserTurn(input))
            /\ request' = RequestContents(conversation')
            /\ modelCalls' = modelCalls + 1
            /\ inFlight' = inFlight + 1
            /\ hist' = [NewHist(input, conversation, files, dirs) EXCEPT !.calls = 1]
            /\ process' = process
    /\ UNCHANGED <<GEMINI_API_KEY, files, dirs, pending, dropped>>

\* A line typed while no question is pending: readline emits a line event that
\* has no listener.
lineDropped ==
    /\ process = "running"
    /\ pc \in {"ModelCallInFlight", "ToolExecuting", "Rejected"}
    /\ ~questionPending
    /\ dropped < MaxDropped
    /\ dropped' = dropped + 1
    /\ UNCHANGED <<GEMINI_API_KEY, pc, process, conversation, files, dirs,
                   questionPending, request, modelCalls, inFlight, pending,
                   lines, hist>>

\* chatWithGemini throws (lines 121..128): handleInput rejects at line 135, the
\* callback rejects at line 189 and line 190 is not reached.  Nothing handles
\* the rejection.
chatWithGeminiThrows ==
    /\ pc = "ModelCallInFlight"
    /\ pc' = "Rejected"
    /\ \E cause \in Failures :
          hist' = [hist EXCEPT !.failed = TRUE, !.cause = cause, !.settled = TRUE]
    /\ \E mode \in UnhandledRejections :
          process' = IF mode = "throw" THEN "exit1" ELSE process
    /\ conversation' = ConversationAfterFailure(conversation)
    /\ inFlight' = inFlight - 1
    /\ UNCHANGED <<GEMINI_API_KEY, files, dirs, questionPending, request,
                   modelCalls, pending, lines, dropped>>

\* handleInput after the dispatch of the reply: unless a shell command is
\* awaited, it returns and promptLoop asks again (line 190)
Dispatched(reply, out) ==
    /\ conversation' = out.conversation
    /\ files' = out.files
    /\ dirs' = out.dirs
    /\ hist' = [hist EXCEPT !.replied = TRUE, !.reply = reply,
                            !.branch = out.branch, !.invoked = out.invoked,
                            !.results = out.results, !.io = out.io,
                            !.settled = (out.branch # "exec")]
    /\ IF out.branch = "exec"
       THEN /\ pc' = "ToolExecuting"
            /\ pending' = [tool |-> out.invoked[1].tool, args |-> out.invoked[1].args,
                           command |-> GetProperty(out.invoked[1].args, Key_command).str]
            /\ UNCHANGED <<questionPending, inFlight>>
       ELSE /\ pc' = "AwaitingInput"
            /\ questionPending' = TRUE
            /\ inFlight' = inFlight - 1
            /\ pending' = pending

ReplyArrives(reply) ==
    Dispatched(reply, HandleReply(reply, conversation, files, dirs))

\* chatWithGemini returns the trimmed text (line 120) and handleInput
\* dispatches it (lines 136..168).
chatWithGeminiReturns(text) ==
    /\ pc = "ModelCallInFlight"
    /\ ReplyArrives(Trim(text))
    /\ UNCHANGED <<GEMINI_API_KEY, process, request, modelCalls, lines, dropped>>

\* The shell command completes (lines 58..61), the tool Turn is pushed (line
\* 148 or 151), handleInput returns and promptLoop asks again.
ExecSettled(r) ==
    /\ conversation' = Append(conversation, ToolTurn(pending.tool, ToolContent(r)))
    /\ hist' = [hist EXCEPT !.results = <<[threw |-> r.threw, value |-> r.value]>>,
                            !.settled = TRUE]

execCompletes ==
    /\ pc = "ToolExecuting"
    /\ ExecSettled(exec_callback(files, dirs, pending.command))
    /\ pc' = "AwaitingInput"
    /\ questionPending' = TRUE
    /\ inFlight' = inFlight - 1
    /\ pending' = NoPending
    /\ UNCHANGED <<GEMINI_API_KEY, process, files, dirs, request, modelCalls,
                   lines, dropped>>

Next ==
    \/ Startup
    \/ \E input \in Lines : promptLoop(input)
    \/ lineDropped
    \/ chatWithGeminiThrows
    \/ \E text \in Replies : chatWithGeminiReturns(text)
    \/ execCompletes

Spec == Init /\ [][Next]_vars

(***************************************************************************)
(* The handlers on their own: one call of tools[T].func(args) on a file    *)
(* system, with the args and the file content drawn from bounded sets.     *)
(* The variables of the loop are reused: files and dirs are the file       *)
(* system, hist holds the file system before the call, the call, its       *)
(* outcome and the fs calls it made.                                       *)
(***************************************************************************)
\* the texts over an alphabet, up to a length
Texts(alphabet, n) == UNION {[1..k -> alphabet] : k \in 0..n}

Text_a_a_a == <<"a", "-", "a", "-", "a">>
Path_d == <<"d">>
Path_a_x == <<"a", "/", "x">>

FileContents == Texts({"a", "-", "."}, MaxLen) \cup {Text_a_a_a}
Patterns == Texts({"a", "-", ".", "("}, MaxLen)
Replacements == {<<>>, <<"b">>, <<"$", "&">>}

\* an args object with the given properties; an undefined value is a missing one
ArgsOf(ks, vs) ==
    LET present == SelectSeq([i \in DOMAIN ks |-> i], LAMBDA i : vs[i].type # "undefined")
    IN  JObject([i \in DOMAIN present |-> ks[present[i]]],
                [i \in DOMAIN present |-> vs[present[i]]])

\* the file systems a call finds: a file "a" of any content in an empty working
\* directory, or the file next to a directory "d"
ToolFileSystems ==
    {[files |-> (Path_a :> c), dirs |-> {}] : c \in FileContents}
        \cup {[files |-> InitialFiles, dirs |-> {Path_d}]}

EditPaths == {JString(Path_a), JString(Path_z), JUndefined, JNumber(5), JBoolean(TRUE)}
EditOldStrs == {JString(t) : t \in Patterns} \cup {JUndefined, JNumber(1)}
EditNewStrs == {JString(t) : t \in Replacements} \cup {JUndefined}
CreatePaths ==
    {JString(Path_a), JString(Path_z), JString(Path_d_b), JString(Path_d),
     JString(Path_a_x), JString(<<>>), JUndefined, JNumber(5)}
CreateContents ==
    {JString(t) : t \in FileContents}
        \cup {JString(<<HighSurrogate, LowSurrogate>>), JString(<<"a", HighSurrogate>>),
              JUndefined, JNumber(1)}
ReadPaths ==
    {JString(Path_a), JString(Path_z), JString(Path_d), JUndefined, JNumber(5)}

ToolInit ==
    /\ GEMINI_API_KEY = TRUE
    /\ pc = "ToolCall"
    /\ process = "running"
    /\ conversation = <<>>
    /\ \E fsys \in ToolFileSystems :
          /\ files = fsys.files
          /\ dirs = fsys.dirs
          /\ hist = NewHist(<<>>, <<>>, fsys.files, fsys.dirs)
    /\ questionPending = FALSE
    /\ request = <<>>
    /\ modelCalls = 0
    /\ inFlight = 0
    /\ pending = NoPending
    /\ lines = 0
    /\ dropped = 0

\* tools[tool].func(args) has returned or thrown: r is what it did
Invoked(tool, args, r) ==
    /\ pc' = "ToolDone"
    /\ files' = r.files
    /\ dirs' = r.dirs
    /\ hist' = [hist EXCEPT !.invoked = <<[tool |-> JString(tool), args |-> args]>>,
                            !.results = <<[threw |-> r.threw, value |-> r.value]>>,
                            !.io = r.io, !.settled = TRUE]
    /\ UNCHANGED <<GEMINI_API_KEY, process, conversation, questionPending, request,
                   modelCalls, inFlight, pending, lines, dropped>>

Invoke(tool, args) == Invoked(tool, args, func(tool, files, dirs, args))

invoke_list_files ==
    /\ pc = "ToolCall"
    /\ Invoke(Name_list_files, ArgsOf(<<>>, <<>>))

invoke_read_file ==
    /\ pc = "ToolCall"
    /\ \E path \in ReadPaths : Invoke(Name_read_file, ArgsOf(<<Key_path>>, <<path>>))

invoke_edit_file ==
    /\ pc = "ToolCall"
    /\ \E path \in EditPaths, oldStr \in EditOldStrs, newStr \in EditNewStrs :
          Invoke(Name_edit_file,
                 ArgsOf(<<Key_path, Key_oldStr, Key_newStr>>, <<path, oldStr, newStr>>))

invoke_create_file ==
    /\ pc = "ToolCall"
    /\ \E path \in CreatePaths, content \in CreateContents :
          Invoke(Name_create_file, ArgsOf(<<Key_path, Key_content>>, <<path, content>>))

ToolNext ==
    \/ invoke_list_files
    \/ invoke_read_file
    \/ invoke_edit_file
    \/ invoke_create_file

ToolSpec == ToolInit /\ [][ToolNext]_vars

(***************************************************************************)
(* What the claims speak of, in terms of the last line (hist).             *)
(***************************************************************************)
IsPrefix(s, t) == Len(s) <= Len(t) /\ SubSeq(t, 1, Len(s)) = s

\* the Turns appended since the last line was given to the callback
Appended == SubSeq(conversation, Len(hist.before) + 1, Len(conversation))

\* the reply of the last line has been dispatched and handleInput has returned
ReplyHandled == hist.replied /\ hist.settled

\* the reply of the last line as JSON.parse reads it after fence stripping
ReplyParse == JSONParse(StripFences(hist.reply))
ReplyTool == GetProperty(ReplyParse.val, Key_tool)
ReplyArgs == GetProperty(ReplyParse.val, Key_args)

HasField(v, key) == v.type = "object" /\ \E i \in DOMAIN v.keys : v.keys[i] = key

\* the parse p is that of a JSON object with a tool field and an args field
ToolShape(p) ==
    /\ p.ok
    /\ HasField(p.val, Key_tool)
    /\ HasField(p.val, Key_args)

HasToolShape == ToolShape(ReplyParse)

\* the parse p is that of {"tool": T, "args": A} with T a registered name and
\* A an object
RegisteredCall(p) ==
    /\ ToolShape(p)
    /\ IsString(GetProperty(p.val, Key_tool))
    /\ GetProperty(p.val, Key_tool).str \in ToolNames
    /\ GetProperty(p.val, Key_args).type = "object"

IsRegisteredCall == RegisteredCall(ReplyParse)

\* what the handler named T does with args A on the file system the line found
HandlerOf(T, A) ==
    CASE T = Name_list_files -> list_files(hist.filesBefore, hist.dirsBefore, A)
      [] T = Name_read_file -> read_file(hist.filesBefore, hist.dirsBefore, A)
      [] T = Name_edit_file -> edit_file(hist.filesBefore, hist.dirsBefore, A)
      [] T = Name_create_file -> create_file(hist.filesBefore, hist.dirsBefore, A)
      [] T = Name_exec ->
            IF IsString(GetProperty(A, Key_command))
            THEN exec_callback(hist.filesBefore, hist.dirsBefore,
                               GetProperty(A, Key_command).str)
            ELSE exec_invalid(hist.filesBefore, hist.dirsBefore, A)

(***************************************************************************)
(* The claims.                                                             *)
(***************************************************************************)

\* C1: when the model call made for a user line fails, the loop is back in
\* AwaitingInput: the prompt is shown again and the process runs on, ready
\* for the next line.
C1_LoopContinuesAfterFailure ==
    hist.failed =>
        /\ pc = "AwaitingInput"
        /\ questionPending
        /\ process = "running"

\* C2: a reply that is not valid JSON, or that parses to a value without the
\* {tool, args} shape, appends exactly one model Turn whose content is the
\* reply text, and runs no tool handler.
C2_NonToolReplyRecorded ==
    (ReplyHandled /\ ~HasToolShape) =>
        /\ Appended = <<UserTurn(hist.input), ModelTurn(hist.reply)>>
        /\ hist.invoked = <<>>

\* the parts of C3, stated for a parse p, a call of T with A, and an outcome r
C3_Outcome(r, turns) ==
    /\ ~r.threw => turns[2].content = r.value
    /\ files = r.files
    /\ dirs = r.dirs

C3_Call(T, A, turns) ==
    /\ hist.invoked = <<[tool |-> T, args |-> A]>>
    /\ Len(turns) = 2
    /\ turns[1] = UserTurn(hist.input)
    /\ turns[2].role = "tool"
    /\ turns[2].name = T
    /\ C3_Outcome(HandlerOf(T.str, A), turns)

C3_Reply(p) ==
    RegisteredCall(p) =>
        C3_Call(GetProperty(p.val, Key_tool), GetProperty(p.val, Key_args), Appended)

C4_Failure(turns) ==
    /\ Len(turns) = 2
    /\ turns[1].role = "user"
    /\ turns[2].role = "tool"
    /\ StartsWith(turns[2].content, ErrorPrefix)
    /\ pc = "AwaitingInput"
    /\ questionPending
    /\ process = "running"

C4_Reply(p) ==
    (/\ RegisteredCall(p)
     /\ HandlerOf(GetProperty(p.val, Key_tool).str, GetProperty(p.val, Key_args)).threw) =>
        C4_Failure(Appended)

\* C4: when the handler of a matched tool throws or rejects, exactly one tool
\* Turn is appended, its content begins with "Error: ", and the loop is back
\* in AwaitingInput with the prompt shown and the process running.
C4_HandlerFailureRecorded == ReplyHandled => C4_Reply(ReplyParse)

C4_Witness ==
    /\ ReplyHandled /\ IsRegisteredCall
    /\ ReplyTool.str = Name_exec
    /\ IsString(GetProperty(ReplyArgs, Key_command))
    /\ HandlerOf(ReplyTool.str, ReplyArgs).threw
    /\ pc = "AwaitingInput"

\* C5: when the model call for a user line fails, no model Turn and no tool
\* Turn is appended and no handler runs: the conversation is the one before
\* the line plus the user Turn, and the file system is untouched.
C5_FailedCallAddsOnlyUserTurn ==
    hist.failed =>
        /\ Appended = <<UserTurn(hist.input)>>
        /\ hist.invoked = <<>>
        /\ files = hist.filesBefore
        /\ dirs = hist.dirsBefore

C5_Witness ==
    /\ hist.failed
    /\ hist.cause = "status"
    /\ Len(hist.before) >= 3

\* C6: a line leads to at most one model call and one tool execution, and
\* while its handleInput has not settled no question is pending, so no other
\* line is taken: at no time are two lines in process.
C6_OneLineAtATime ==
    /\ inFlight <= 1
    /\ modelCalls <= lines
    /\ hist.calls <= 1
    /\ Len(hist.invoked) <= 1
    /\ questionPending => (inFlight = 0 /\ pc = "AwaitingInput")
    /\ (questionPending /\ lines > 0) => hist.settled
    /\ pc \in {"ModelCallInFlight", "ToolExecuting"} => (inFlight = 1 /\ ~hist.settled)

C6_Witness ==
    /\ pc = "ToolExecuting"
    /\ dropped > 0
    /\ lines = 1
    /\ ~questionPending

\* C7: a line that is "exit" after trimming and case folding closes the
\* loop: no user Turn is appended for it, no model call is made for it, no
\* tool runs, and once closed nothing changes any more.
C7_ExitCloses ==
    /\ [](lines > 0 /\ ToLowerCase(Trim(hist.input)) = ExitWord =>
            /\ pc = "Closed"
            /\ conversation = hist.before
            /\ hist.calls = 0
            /\ hist.invoked = <<>>
            /\ ~questionPending
            /\ inFlight = 0)
    /\ [][pc = "Closed" =>
            UNCHANGED <<pc, conversation, request, modelCalls, files, dirs, lines,
                        questionPending>>]_vars

C7_Witness ==
    /\ pc = "Closed"
    /\ hist.input = Line_Exit
    /\ lines = 2
    /\ modelCalls = 1

\* C8: the conversation is append-only: every step leaves the Turns it found
\* in place and unchanged.
C8_AppendOnly == [][IsPrefix(conversation, conversation')]_vars

C8_Witness ==
    /\ Len(conversation) = 5
    /\ conversation[3].role = "tool"
    /\ conversation[5].role = "model"

\* C9: the request of a model call has one entry per stored Turn, in order,
\* with the role and the content of that Turn, and its last entry is the
\* user Turn of the line in process.
C9_RequestIsWholeConversation ==
    pc = "ModelCallInFlight" =>
        /\ Len(request) = Len(conversation)
        /\ \A i \in DOMAIN conversation :
              /\ request[i].role = conversation[i].role
              /\ request[i].parts = <<[text |-> conversation[i].content]>>
        /\ conversation[Len(conversation)] = UserTurn(hist.input)

C9_Witness ==
    /\ pc = "ModelCallInFlight"
    /\ Len(conversation) = 4
    /\ conversation[3].role = "tool"

\* C10: a reply with tool and args fields whose tool is none of the five
\* registered names appends no Turn and runs no handler: the conversation
\* gains only the user Turn of the line.
C10_UnknownToolAppendsNothing ==
    (/\ ReplyHandled /\ HasToolShape
     /\ Truthy(ReplyTool) /\ Truthy(ReplyArgs)
     /\ ~(IsString(ReplyTool) /\ ReplyTool.str \in ToolNames)) =>
        /\ Appended = <<UserTurn(hist.input)>>
        /\ hist.invoked = <<>>

(***************************************************************************)
(* What the claims about the handlers speak of: the one call of ToolSpec.  *)
(***************************************************************************)
CallDone == pc = "ToolDone"
CalledTool(tool) == CallDone /\ hist.invoked[1].tool.str = tool
CallArg(key) == GetProperty(hist.invoked[1].args, key)
CallThrew == hist.results[1].threw
CallValue == hist.results[1].value
FileSystemUntouched == files = hist.filesBefore /\ dirs = hist.dirsBefore

\* the text of the error of lines 33..35, up to the values it quotes
ArgumentErrorText ==
    ErrorToString(ErrorName, <<"Missing or invalid arguments. Got: path=">>)

\* C11: edit_file called with path, oldStr or newStr missing or not a string
\* throws the argument error before any fs call is made: no file is read or
\* written and the file system is as it was.
C11_EditFileChecksArguments ==
    (/\ CalledTool(Name_edit_file)
     /\ \/ ~IsString(CallArg(Key_path))
        \/ ~IsString(CallArg(Key_oldStr))
        \/ ~IsString(CallArg(Key_newStr))) =>
        /\ CallThrew
        /\ StartsWith(CallValue, ArgumentErrorText)
        /\ hist.io = <<>>
        /\ FileSystemUntouched

\* the args of the call lack a string that the handler called requires
CallLacksArgument ==
    \/ /\ CalledTool(Name_read_file)
       /\ ~IsString(CallArg(Key_path))
    \/ /\ CalledTool(Name_edit_file)
       /\ \/ ~IsString(CallArg(Key_path))
          \/ ~IsString(CallArg(Key_oldStr))
          \/ ~IsString(CallArg(Key_newStr))
    \/ /\ CalledTool(Name_create_file)
       /\ \/ ~IsString(CallArg(Key_path))
          \/ ~IsString(CallArg(Key_content))

\* C12: a handler called without a string it requires fails before any side
\* effect; create_file without a string content, or without a string path,
\* throws and creates no directory and no file.
C12_NoSideEffectOnBadArguments ==
    CallLacksArgument =>
        /\ CallThrew
        /\ FileSystemUntouched

\* edit_file was called with three strings on the path of a file
EditOfFile ==
    /\ CalledTool(Name_edit_file)
    /\ IsString(CallArg(Key_path))
    /\ IsString(CallArg(Key_oldStr))
    /\ IsString(CallArg(Key_newStr))
    /\ CallArg(Key_path).str \in DOMAIN hist.filesBefore

ContentBefore == hist.filesBefore[CallArg(Key_path).str]

\* the text p is a substring of s
Occurs(s, p) == \E i \in 1..(Len(s) + 1) : \E j \in (i - 1)..Len(s) : SubSeq(s, i, j) = p

\* s with every occurrence of the non-empty text old, taken left to right
\* without overlap, replaced by the text new
RECURSIVE ReplaceOccurrences(_, _, _)
ReplaceOccurrences(s, old, new) ==
    IF s = <<>> THEN <<>>
    ELSE IF Len(old) <= Len(s) /\ SubSeq(s, 1, Len(old)) = old
         THEN new \o ReplaceOccurrences(SubSeq(s, Len(old) + 1, Len(s)), old, new)
         ELSE <<Head(s)>> \o ReplaceOccurrences(Tail(s), old, new)

SuccessfullyEdited(path) ==
    <<"Successfully edited ", Apostrophe>> \o path \o <<Apostrophe>>

\* C13: when oldStr is not a substring of the content of the file, edit_file
\* leaves the content as it was and returns the success message naming the
\* path.
C13_EditFileIdempotentWithoutOccurrence ==
    (EditOfFile /\ ~Occurs(ContentBefore, CallArg(Key_oldStr).str)) =>
        /\ ~CallThrew
        /\ CallValue = SuccessfullyEdited(CallArg(Key_path).str)
        /\ FileSystemUntouched

\* C14: edit_file writes to the same path the content with every occurrence
\* of oldStr, left to right and without overlap, replaced by newStr, and
\* touches nothing else.
C14_EditFileReplacesEveryOccurrence ==
    (EditOfFile /\ CallArg(Key_oldStr).str # <<>>) =>
        /\ ~CallThrew
        /\ files = [hist.filesBefore EXCEPT ![CallArg(Key_path).str] =
                        ReplaceOccurrences(ContentBefore, CallArg(Key_oldStr).str,
                                           CallArg(Key_newStr).str)]
        /\ dirs = hist.dirsBefore

\* create_file was called with a string path and a string content
CreateOfStrings ==
    /\ CalledTool(Name_create_file)
    /\ IsString(CallArg(Key_path))
    /\ IsString(CallArg(Key_content))

\* the directories of a path, from the working directory down
ParentsOf(path) ==
    {SubSeq(path, 1, i - 1) : i \in {j \in DOMAIN path : j > 1 /\ path[j] = "/"}}

\* a file can be created at the path: it is not empty, names no directory, and
\* no directory of it is a regular file
Creatable(path) ==
    /\ path # <<>>
    /\ path \notin hist.dirsBefore
    /\ \A q \in ParentsOf(path) : q \notin DOMAIN hist.filesBefore

\* the text has no surrogate outside a pair
RECURSIVE WellFormed(_)
WellFormed(s) ==
    IF s = <<>> THEN TRUE
    ELSE IF Len(s) >= 2 /\ s[1] = HighSurrogate /\ s[2] = LowSurrogate
    THEN WellFormed(SubSeq(s, 3, Len(s)))
    ELSE s[1] \notin {HighSurrogate, LowSurrogate} /\ WellFormed(Tail(s))

\* the call has made the directories of the path and the file, has left every
\* other file alone, and read_file of the path now returns the content
RoundTrip(path, content) ==
    /\ ~CallThrew
    /\ dirs = hist.dirsBefore \cup ParentsOf(path)
    /\ DOMAIN files = DOMAIN hist.filesBefore \cup {path}
    /\ \A q \in DOMAIN hist.filesBefore : q # path => files[q] = hist.filesBefore[q]
    /\ LET r == read_file(files, dirs, ArgsOf(<<Key_path>>, <<JString(path)>>))
       IN  ~r.threw /\ r.value = content

\* C15 as stated: for every path and every string content, create_file makes
\* the missing directories and the file, and read_file of the path returns
\* exactly the content.
C15_RoundTripForEveryPathAndContent ==
    CreateOfStrings => RoundTrip(CallArg(Key_path).str, CallArg(Key_content).str)

\* C15 as amended: for every path at which a file can be created and every
\* string content without an unpaired surrogate, create_file makes the
\* missing directories and the file, overwriting a file at the path, and
\* read_file of the path returns exactly the content.
C15_RoundTripOfCreatableWellFormed ==
    (/\ CreateOfStrings
     /\ Creatable(CallArg(Key_path).str)
     /\ WellFormed(CallArg(Key_content).str)) =>
        RoundTrip(CallArg(Key_path).str, CallArg(Key_content).str)

C15_Witness ==
    /\ CreateOfStrings
    /\ CallArg(Key_path).str = Path_d_b
    /\ CallArg(Key_content).str = <<HighSurrogate, LowSurrogate>>
    /\ Path_d \notin hist.dirsBefore
    /\ Path_d \in dirs
    /\ Path_d_b \in DOMAIN files

\* C16: every Turn of the conversation has a role among system, user, model
\* and tool; the first Turn is the system prompt with role system; a Turn
\* has a tool name exactly when its role is tool.
C16_TurnsAreWellFormed ==
    /\ \A i \in DOMAIN conversation :
          /\ conversation[i].role \in {"system", "user", "model", "tool"}
          /\ ("name" \in DOMAIN conversation[i]) <=> (conversation[i].role = "tool")
    /\ conversation # <<>> =>
          /\ conversation[1].role = "system"
          /\ conversation[1].content = systemPrompt

\* C17: without the key the process ends with a non-zero status before the
\* loop begins (no prompt, no line taken, no model call, no Turn), and that
\* is the only way the process ends abnormally.
C17_OnlyMissingKeyIsFatal ==
    /\ (~GEMINI_API_KEY /\ pc # "Startup") =>
          /\ process = "exit1"
          /\ ~questionPending
          /\ lines = 0
          /\ modelCalls = 0
          /\ conversation = <<>>
    /\ process = "exit1" => ~GEMINI_API_KEY

EndsWith(s, p) == Len(p) <= Len(s) /\ SubSeq(s, Len(s) - Len(p) + 1, Len(s)) = p

\* the reply without a leading json fence marker and without a trailing
\* fence marker, and with nothing else removed
WithoutLeadingFence(s) ==
    IF StartsWith(s, FenceJson) THEN SubSeq(s, Len(FenceJson) + 1, Len(s)) ELSE s
WithoutTrailingFence(s) ==
    IF EndsWith(s, Fence) THEN SubSeq(s, 1, Len(s) - Len(Fence)) ELSE s
WithoutSurroundingFences(s) == WithoutTrailingFence(WithoutLeadingFence(s))

\* the dispatch of the last reply is that of the parse p of a tool call
DispatchedAs(p) ==
    RegisteredCall(p) =>
        C3_Call(GetProperty(p.val, Key_tool), GetProperty(p.val, Key_args), Appended)

\* C18: a reply is parsed with its leading json fence marker and its trailing
\* fence marker removed and nothing else: when what is left is a tool call,
\* the handler, the args and the tool Turn are those of that tool call, so a
\* fenced tool call is dispatched as the same call without the fences.
C18_OnlySurroundingFencesStripped ==
    ReplyHandled => DispatchedAs(JSONParse(WithoutSurroundingFences(hist.reply)))

\* C19: a line whose model call has succeeded appends its user Turn and at
\* most one more Turn, a tool Turn or a model Turn; the reply that calls a
\* tool is not stored, so every tool Turn comes right after a user Turn.
C19_OneTurnPerReply ==
    /\ hist.replied =>
          /\ Len(Appended) \in {1, 2}
          /\ Appended[1] = UserTurn(hist.input)
          /\ Len(Appended) = 2 => Appended[2].role \in {"tool", "model"}
          /\ (Len(Appended) = 2 /\ hist.invoked # <<>>) => Appended[2].role = "tool"
    /\ \A i \in DOMAIN conversation :
          conversation[i].role = "tool" => (i > 1 /\ conversation[i - 1].role = "user")

C19_Witness ==
    /\ ReplyHandled
    /\ hist.branch = "tool"
    /\ Len(Appended) = 2
    /\ Appended[2].role = "tool"
    /\ Len(hist.before) = 3
    /\ hist.before[3].role = "model"
====
